---- MODULE Spec2Model ----
(***************************************************************************)
(* The object disassembler of lib/MC/MCAnalysis/MCObjectDisassembler.cpp:  *)
(* the region map, the instruction decode cache, the CFG builder getBBAt,  *)
(* the function factory createFunction and the driver buildModule/buildCFG.*)
(*                                                                         *)
(* The object file is one text section of MemSize bytes loaded at          *)
(* RegionBase; its bytes, the external addresses known to the symbolizer   *)
(* and the function symbols are the inputs.  The decoder and the           *)
(* instruction-analysis oracle are a fixture ISA over six byte values.     *)
(***************************************************************************)
EXTENDS Integers, Sequences, FiniteSets, TLC

(* ------------------------------ bounds -------------------------------- *)

\* Length in bytes of the text section.
MemSize == 3
\* Load address of the text section.
RegionBase == 16
\* Number of function symbols in the symbol table.
MaxSyms == 2
\* Stand-in for the uniquing threshold 5000 of addTempInstruction.
TempThreshold == 1
\* Stand-in for the 2000 entries uniqueTempInstructions retains.
CacheKeep == 2
\* Number of text sections in the region-lookup queries.
MaxRegions == 2
\* Stand-in for the 64 bits of uint64_t in the load-address arithmetic.
AddrBits == 3

\* Number of decodes in a stream of decodes against the cache.
MaxDecodes == 4

\* Bytes that follow the leading conditional branch and the nop after it in
\* the runs that split atoms within one getBBAt call.
SplitTail == 3

None == -1

(* --------------------------- fixture ISA ------------------------------ *)

\* Byte values; a byte is an opcode or the operand of the preceding opcode.
Bytes == 0..5

\* The opcode a byte value stands for.
Mnemonic(b) ==
  CASE b = 0 -> "ret"
    [] b = 1 -> "nop"
    [] b = 2 -> "jmp"
    [] b = 3 -> "jcc"
    [] b = 4 -> "call"
    [] OTHER -> "bad"

NoInst == [Opcode |-> "none", Operand |-> None]

\* Dis.getInstruction on the bytes bs found at the address: ret and nop are
\* one byte, jmp/jcc/call take one operand byte, anything else fails.
DecodeBytes(bs) ==
  IF Len(bs) = 0 THEN [ok |-> FALSE, Size |-> 1, Inst |-> NoInst]
  ELSE IF Mnemonic(bs[1]) \in {"ret", "nop"}
    THEN [ok |-> TRUE, Size |-> 1,
          Inst |-> [Opcode |-> Mnemonic(bs[1]), Operand |-> None]]
  ELSE IF Mnemonic(bs[1]) \in {"jmp", "jcc", "call"} /\ Len(bs) >= 2
    THEN [ok |-> TRUE, Size |-> 2,
          Inst |-> [Opcode |-> Mnemonic(bs[1]), Operand |-> bs[2]]]
  ELSE [ok |-> FALSE, Size |-> 1, Inst |-> NoInst]

\* MCInstrAnalysis
isBranch(I) == I.Opcode \in {"jmp", "jcc"}
isConditionalBranch(I) == I.Opcode = "jcc"
isCall(I) == I.Opcode = "call"
isTerminator(I) == I.Opcode \in {"ret", "jmp", "jcc"}
\* evaluateBranch: None when the target is not statically known.
evaluateBranch(I, addr, size) ==
  IF I.Opcode \in {"jmp", "jcc", "call"} THEN RegionBase + I.Operand ELSE None

(* ------------------------- sequence helpers --------------------------- *)

Range(s) == {s[i] : i \in 1..Len(s)}

Max2(a, b) == IF a >= b THEN a ELSE b
Min2(a, b) == IF a <= b THEN a ELSE b

\* StringRef::compare(...) < 0: lexicographic, a proper prefix is smaller.
LexLess(a, b) ==
  \/ \E i \in 1..Min2(Len(a), Len(b)) :
       /\ a[i] < b[i]
       /\ \A j \in 1..(i-1) : a[j] = b[j]
  \/ /\ Len(a) < Len(b)
     /\ \A j \in 1..Len(a) : a[j] = b[j]

\* StringRef::startswith
StartsWith(s, p) == Len(p) <= Len(s) /\ \A j \in 1..Len(p) : s[j] = p[j]

\* SmallSetVector::insert
SetVectorInsert(v, x) == IF x \in Range(v) THEN v ELSE Append(v, x)

RECURSIVE SortedSeqOf(_)
\* The byte strings of S in increasing lexicographic order.
SortedSeqOf(S) ==
  IF S = {} THEN <<>>
  ELSE LET m == CHOOSE x \in S : \A y \in S \ {x} : LexLess(x, y)
       IN <<m>> \o SortedSeqOf(S \ {m})

RECURSIVE SortedNums(_)
SortedNums(S) ==
  IF S = {} THEN <<>>
  ELSE LET m == CHOOSE x \in S : \A y \in S : x <= y
       IN <<m>> \o SortedNums(S \ {m})

\* RemoveDupsFromAddressVector: sort + unique.
RemoveDupsFromAddressVector(V) == SortedNums(Range(V))


(* ------------------------------ state --------------------------------- *)

VARIABLES
  mem,                    \* Obj: the contents of the text section
  ext,                    \* MOS: the addresses findExternalFunctionAt names
  symbols,                \* Obj.symbols(): the function symbols, in table order
  pc,                     \* position in buildModule / buildCFG / getBBAt
  err,                    \* the assertion or fatal error that stopped the program
  run,                    \* number of buildModule(true) calls started
  mode,                   \* buildCFG: "sweep" (symbol loop) or "fixpoint" (while loop)
  symIdx,                 \* buildCFG: next symbol / next call target to handle
  SectionRegions,         \* MCObjectDisassembler::SectionRegions
  Atoms,                  \* MCModule: atoms, by begin address
  Functions,              \* MCModule: functions, in creation order
  Succs,                  \* MCBasicBlock::Successors, as pairs <<block, successor>>
  Preds,                  \* MCBasicBlock::Predecessors, as pairs <<block, predecessor>>
  FirstModule,            \* the module the first buildModule(true) returned
  CallTargets,            \* buildCFG local
  TailCallTargets,        \* buildCFG local
  NewCallTargets,         \* buildCFG local
  CachedInsts,            \* decode cache: sorted table of [RawBytes, Inst]
  TempInstKeys,           \* decode cache: [RawBytes, ValueIdx]
  TempInstValues,         \* decode cache: decoded instructions
  LongestCachedRawBytes,
  Uniqued,
  Translated,
  MCFN,                   \* getBBAt: the function being populated
  Worklist,               \* getBBAt local
  wi,                     \* getBBAt: index into Worklist (from 1)
  BBInfos,                \* getBBAt local: address -> [Atom, SuccAddrs]
  Addr,                   \* getBBAt: cursor of the linear disassembly
  EndAddr,                \* getBBAt: where the linear disassembly must stop
  TA,                     \* getBBAt: the atom under construction (begin address)
  lookup,                 \* history: the last findCachedInstruction call
  splitEvt,               \* history: the split done for the entry of the last call
  unsplit,                \* history: the blocks the call split, by split address
  MOOF,                   \* Mach-O object: load commands and symbol table
  VMAddrSlide,            \* MCMachOObjectDisassembler::VMAddrSlide
  HeaderLoadAddress,      \* MCMachOObjectDisassembler::HeaderLoadAddress
  ret                     \* history: the last query call and what it returned

inputVars == <<mem, ext>>
drvVars == <<symbols, run, mode, symIdx, SectionRegions, FirstModule>>
tgtVars == <<CallTargets, TailCallTargets, NewCallTargets>>
modVars == <<Atoms, Functions, Succs, Preds>>
cacheVars == <<CachedInsts, TempInstKeys, TempInstValues, LongestCachedRawBytes>>
cntVars == <<Uniqued, Translated>>
bbVars == <<MCFN, Worklist, wi, BBInfos, Addr, EndAddr, TA>>
histVars == <<lookup, splitEvt, unsplit>>
qryVars == <<MOOF, VMAddrSlide, HeaderLoadAddress, ret>>
vars == <<inputVars, qryVars, drvVars, tgtVars, modVars, cacheVars, cntVars, bbVars,
          histVars, pc, err>>

EmptyMap == [x \in {} |-> None]

(* ---------------------------- region map ------------------------------ *)

\* MCObjectDisassembler::getEffectiveLoadAddr / getOriginalLoadAddr
getEffectiveLoadAddr(a) == a
getOriginalLoadAddr(a) == a

\* Obj.sections(): one text section with file-backed contents.
Sections(m) == <<[Address |-> RegionBase, Contents |-> m, isText |-> TRUE]>>

\* buildModule: one StringRefMemoryObject per text section, sorted by base.
BuildRegions(secs) ==
  LET kept == {i \in 1..Len(secs) : secs[i].isText}
      bases == SortedNums({getEffectiveLoadAddr(secs[i].Address) : i \in kept})
  IN [k \in 1..Len(bases) |->
        LET i == CHOOSE j \in kept : getEffectiveLoadAddr(secs[j].Address) = bases[k]
        IN [Base |-> bases[k], Extent |-> Len(secs[i].Contents),
            Bytes |-> secs[i].Contents]]

\* FallbackRegion is never set: getRegionFor returns null (0) through it.
FallbackRegion == 0

getRegionForNoBaseCheck(regions, a) ==
  LET notLess == {i \in 1..Len(regions) : ~(regions[i].Base + regions[i].Extent <= a)}
  IN IF notLess # {} THEN CHOOSE j \in notLess : \A k \in notLess : j <= k
     ELSE FallbackRegion

\* getRegionFor: lower_bound with SectionRegionAddrComparator, then Base <= Addr.
getRegionFor(regions, a) ==
  LET notLess == {i \in 1..Len(regions) : ~(regions[i].Base + regions[i].Extent <= a)}
  IN IF notLess # {}
       THEN LET i == CHOOSE j \in notLess : \A k \in notLess : j <= k
            IN IF regions[i].Base <= a THEN i ELSE FallbackRegion
       ELSE FallbackRegion

\* StringRefMemoryObject::getByteRange: up to size bytes starting at a.
getByteRange(region, a, size) ==
  LET off == a - region.Base
  IN IF off < 0 \/ off >= region.Extent THEN <<>>
     ELSE SubSeq(region.Bytes, off + 1, Min2(off + size, region.Extent))

\* Dis.getInstruction(Inst, InstSize, Region, Addr): the decoder reads the
\* region from Addr on.
getInstruction(region, a) ==
  DecodeBytes(getByteRange(region, a, region.Extent))

\* MOS->findExternalFunctionAt: the name (here the address) or None for "".
findExternalFunctionAt(extset, a) == IF a \in extset THEN a ELSE None

(* ---------------------------- decode cache ---------------------------- *)

NoLookup == [valid |-> FALSE]

\* std::lower_bound(CachedInsts, RawBytes): index of the first entry that is
\* not less than RawBytes, Len + 1 for end().
LowerBound(cached, RawBytes) ==
  LET notLess == {i \in 1..Len(cached) : ~LexLess(cached[i].RawBytes, RawBytes)}
  IN IF notLess = {} THEN Len(cached) + 1
     ELSE CHOOSE i \in notLess : \A k \in notLess : i <= k

CacheHitTestAlways(RawBytes, entryBytes) == TRUE

\* The hit test of findCachedInstruction.
CacheHitTest(RawBytes, entryBytes) == StartsWith(RawBytes, entryBytes)

findCachedInstruction(cached, longest, region, a) ==
  IF region.Base + region.Extent < a
    THEN [hit |-> FALSE, Inst |-> NoInst, InstSize |-> 0, RawBytes |-> <<>>]
    ELSE LET RawBytes == getByteRange(region, a, longest)
             CachedIt == LowerBound(cached, RawBytes)
         IN IF CachedIt # Len(cached) + 1
               /\ CacheHitTest(RawBytes, cached[CachedIt].RawBytes)
              THEN [hit |-> TRUE, Inst |-> cached[CachedIt].Inst,
                    InstSize |-> Len(cached[CachedIt].RawBytes),
                    RawBytes |-> RawBytes]
              ELSE [hit |-> FALSE, Inst |-> NoInst, InstSize |-> 0,
                    RawBytes |-> RawBytes]

KeyCountBeforeAscending(kept, dropped) == kept <= dropped

\* TempInstKeyCount::operator< orders the runs by descending Count: a run kept
\* among the first CacheKeep has a count no smaller than a run that is dropped.
KeyCountBefore(kept, dropped) == kept >= dropped

SortCachedInstsDescending(R) ==
  [k \in 1..Cardinality(R) |-> SortedSeqOf(R)[Cardinality(R) + 1 - k]]

\* uniqueTempInstructions, std::sort(CachedInsts): the raw bytes of the table.
SortCachedInsts(R) == SortedSeqOf(R)

TempBufferFullLate(n) == n > TempThreshold + 1

\* addTempInstruction: the test that triggers uniqueTempInstructions.
TempBufferFull(n) == n > TempThreshold

\* uniqueTempInstructions: the possible new [CachedInsts, Longest].  Equal keys
\* are counted; the CacheKeep most frequent runs are kept (std::sort leaves the
\* order of runs with equal counts, and the representative of a run, open).
uniqueTempInstructions(cached, keys, values, longest) ==
  LET allValues == values \o [i \in 1..Len(cached) |-> cached[i].Inst]
      allKeys == keys \o [i \in 1..Len(cached) |->
                   [RawBytes |-> cached[i].RawBytes, ValueIdx |-> Len(values) + i]]
      runs == {allKeys[i].RawBytes : i \in 1..Len(allKeys)}
      Count(b) == Cardinality({i \in 1..Len(allKeys) : allKeys[i].RawBytes = b})
      Reps(b) == {allValues[allKeys[i].ValueIdx] :
                    i \in {j \in 1..Len(allKeys) : allKeys[j].RawBytes = b}}
      n == Min2(CacheKeep, Cardinality(runs))
      kept == {R \in SUBSET runs :
                 /\ Cardinality(R) = n
                 /\ \A r \in R : \A d \in runs \ R : KeyCountBefore(Count(r), Count(d))}
  IN UNION {
       { [CachedInsts |-> [k \in 1..n |->
                            [RawBytes |-> SortCachedInsts(R)[k],
                             Inst |-> f[SortCachedInsts(R)[k]]]],
          Longest |-> IF R = {} THEN longest
                      ELSE Max2(longest,
                                CHOOSE l \in {Len(b) : b \in R} :
                                  \A b \in R : Len(b) <= l)]
         : f \in {g \in [R -> UNION {Reps(b) : b \in R}] :
                    \A b \in R : g[b] \in Reps(b)} }
       : R \in kept }

\* addTempInstruction: the possible cache states after the call.
addTempInstruction(cached, keys, values, longest, Inst, RawBytes) ==
  LET keys1 == Append(keys, [RawBytes |-> RawBytes, ValueIdx |-> Len(values) + 1])
      values1 == Append(values, Inst)
  IN IF TempBufferFull(Len(values1))
       THEN { [CachedInsts |-> u.CachedInsts, TempInstKeys |-> <<>>,
               TempInstValues |-> <<>>, Longest |-> u.Longest]
              : u \in uniqueTempInstructions(cached, keys1, values1, longest) }
       ELSE { [CachedInsts |-> cached, TempInstKeys |-> keys1,
               TempInstValues |-> values1, Longest |-> longest] }


(* -------------------- atom store, functions, blocks ------------------- *)

\* MCModule::createTextAtom(Begin, End)
createTextAtom(Begin, End) ==
  [Begin |-> Begin, End |-> End, Insts |-> <<>>, IsText |-> TRUE]

\* MCTextAtom::addInst: the instruction goes right after the last one and the
\* atom grows to cover it.
addInst(atom, Inst, Size) ==
  LET next == IF atom.Insts = <<>> THEN atom.Begin
              ELSE atom.Insts[Len(atom.Insts)].Address
                   + atom.Insts[Len(atom.Insts)].Size
  IN [atom EXCEPT !.Insts = Append(@, [Address |-> next, Size |-> Size, Inst |-> Inst]),
                  !.End = Max2(@, next + Size - 1)]

\* MCModule::findAtomContaining: begin address of the atom, or None.
findAtomContaining(atoms, a) ==
  LET in == {b \in DOMAIN atoms : b <= a /\ a <= atoms[b].End}
  IN IF in = {} THEN None ELSE CHOOSE b \in in : \A c \in in : b <= c

\* MCModule::findFirstAtomAfter: begin address of the atom, or None.
findFirstAtomAfter(atoms, a) ==
  LET after == {b \in DOMAIN atoms : b > a}
  IN IF after = {} THEN None ELSE CHOOSE b \in after : \A c \in after : b <= c

\* MCTextAtom::split is possible only on an instruction boundary.
CanSplit(atom, SplitPt) ==
  \E i \in 1..Len(atom.Insts) : atom.Insts[i].Address = SplitPt

\* MCTextAtom::split(SplitPt), on the atoms: the atom keeps [Begin, SplitPt-1]
\* and the instructions before SplitPt, a new atom takes the rest.
split(atoms, b, SplitPt) ==
  LET atom == atoms[b]
      k == CHOOSE i \in 1..Len(atom.Insts) : atom.Insts[i].Address = SplitPt
      left == [atom EXCEPT !.End = SplitPt - 1, !.Insts = SubSeq(@, 1, k - 1)]
      right == [Begin |-> SplitPt, End |-> atom.End,
                Insts |-> SubSeq(atom.Insts, k, Len(atom.Insts)),
                IsText |-> TRUE]
  IN (SplitPt :> right) @@ [atoms EXCEPT ![b] = left]

\* The basic blocks of the module: <<function, begin address of its atom>>.
BlocksOf(funcs) ==
  UNION {{<<f, funcs[f].Blocks[i]>> : i \in 1..Len(funcs[f].Blocks)}
           : f \in 1..Len(funcs)}

\* Functions with a basic block on the atom that begins at b.
Owners(funcs, b) == {f \in 1..Len(funcs) : b \in Range(funcs[f].Blocks)}

\* A split atom splits the basic blocks that refer to it: in each owning
\* function the upper half becomes a new block ...
splitFunctions(funcs, b, SplitPt) ==
  [f \in 1..Len(funcs) |->
     IF f \in Owners(funcs, b)
       THEN [funcs[f] EXCEPT !.Blocks = Append(@, SplitPt)]
       ELSE funcs[f]]

splitSuccsKept(funcs, succs, b, SplitPt) ==
  succs \cup {<<<<f, b>>, <<f, SplitPt>>>> : f \in Owners(funcs, b)}

\* ... that takes over the successors of the truncated block, which is left
\* with the new block as its only successor ...
splitSuccs(funcs, succs, b, SplitPt) ==
  LET own == {<<f, b>> : f \in Owners(funcs, b)}
  IN {e \in succs : e[1] \notin own}
     \cup {<<<<e[1][1], SplitPt>>, e[2]>> : e \in {x \in succs : x[1] \in own}}
     \cup {<<<<f, b>>, <<f, SplitPt>>>> : f \in Owners(funcs, b)}

\* ... and the predecessor sets follow.
splitPreds(funcs, succs, preds, b, SplitPt) ==
  LET own == {<<f, b>> : f \in Owners(funcs, b)}
      moved == {x \in succs : x[1] \in own}
  IN {e \in preds : ~(\E x \in moved : e = <<x[2], x[1]>>)}
     \cup {<<x[2], <<x[1][1], SplitPt>>>> : x \in moved}
     \cup {<<<<f, SplitPt>>, <<f, b>>>> : f \in Owners(funcs, b)}

\* MCModule::findFunctionAt: index of the function whose entry block begins
\* at a, or None.
findFunctionAt(funcs, a) ==
  LET at == {f \in 1..Len(funcs) :
               funcs[f].Blocks # <<>> /\ funcs[f].Blocks[1] = a}
  IN IF at = {} THEN None ELSE CHOOSE f \in at : \A g \in at : f <= g

\* MCModule::createFunction(Name)
createFunctionNamed(funcs, name) == Append(funcs, [Name |-> name, Blocks |-> <<>>])


(* ------------------------------ getBBAt ------------------------------- *)

NoSplit == [a0 |-> None]

\* The accumulator buildCFG passes as CallTargets: its CallTargets in the
\* symbol loop, its NewCallTargets in the while loop.
CurCallTargets == IF mode = "sweep" THEN CallTargets ELSE NewCallTargets

SetAccumulators(call, tail) ==
  /\ CallTargets' = IF mode = "sweep" THEN call ELSE CallTargets
  /\ NewCallTargets' = IF mode = "sweep" THEN NewCallTargets ELSE call
  /\ TailCallTargets' = tail

\* An assertion or llvm_unreachable stops the program.
Abort(reason) ==
  /\ pc' = "aborted"
  /\ err' = reason
  /\ UNCHANGED <<inputVars, qryVars, drvVars, tgtVars, modVars, cacheVars, cntVars,
                 bbVars, histVars>>

FallthroughNeededNonTerminator(Inst) == ~isTerminator(Inst)

FallthroughNeededAlways(Inst) == TRUE

\* getBBAt, "add the fallthrough block": the trailing instruction is a
\* conditional branch or not a terminator.
FallthroughNeeded(Inst) == isConditionalBranch(Inst) \/ ~isTerminator(Inst)

ExternalTargetAsSuccessor(succAddrs, worklist, BranchTarget) ==
  [SuccAddrs |-> Append(succAddrs, BranchTarget),
   Worklist |-> SetVectorInsert(worklist, BranchTarget)]

\* getBBAt, the branch target is an external function: the successor addresses
\* and the worklist are left as they are.
ExternalTarget(succAddrs, worklist, BranchTarget) ==
  [SuccAddrs |-> succAddrs, Worklist |-> worklist]

WorklistInsertNever(worklist, a) == worklist

WorklistInsertAppend(worklist, a) == Append(worklist, a)

\* getBBAt, Worklist.insert(a): the worklist is a SmallSetVector.
WorklistInsert(worklist, a) == SetVectorInsert(worklist, a)

\* getBBAt, "Now we have a basic block atom, add successors": the successor
\* addresses, the worklist and the accumulators after the atom at ta is fixed.
AddSuccessors(ta, atoms, succAddrs, worklist, callT, tailT) ==
  LET back == atoms[ta].Insts[Len(atoms[ta].Insts)]
      Region == SectionRegions[getRegionFor(SectionRegions, atoms[ta].Begin)]
      EndRegion == Region.Base + Region.Extent
      fall == /\ FallthroughNeeded(back.Inst)
              /\ atoms[ta].End + 1 < EndRegion
      s1 == IF fall THEN Append(succAddrs, atoms[ta].End + 1) ELSE succAddrs
      w1 == IF fall THEN WorklistInsert(worklist, atoms[ta].End + 1) ELSE worklist
      BranchTarget == IF isBranch(back.Inst)
                        THEN evaluateBranch(back.Inst, back.Address, back.Size)
                        ELSE None
      isExt == /\ BranchTarget # None
               /\ findExternalFunctionAt(ext, getOriginalLoadAddr(BranchTarget)) # None
      isSucc == BranchTarget # None /\ ~isExt
  IN [SuccAddrs |-> IF isSucc THEN Append(s1, BranchTarget)
                    ELSE IF isExt THEN ExternalTarget(s1, w1, BranchTarget).SuccAddrs
                    ELSE s1,
      Worklist |-> IF isSucc THEN WorklistInsert(w1, BranchTarget)
                   ELSE IF isExt THEN ExternalTarget(s1, w1, BranchTarget).Worklist
                   ELSE w1,
      CallTargets |-> IF isExt THEN Append(callT, BranchTarget) ELSE callT,
      TailCallTargets |-> IF isExt THEN Append(tailT, BranchTarget) ELSE tailT]

TruncatedSuccAddrsKept(succAddrs, BeginAddr) == Append(succAddrs, BeginAddr)

\* getBBAt, the split block's list after the transfer: clear(), then
\* push_back(BeginAddr).
TruncatedSuccAddrs(succAddrs, BeginAddr) == <<BeginAddr>>

SplitResultOld(A, BeginAddr) == A

\* getBBAt after TA->split(BeginAddr): "TA = NewTA", the atom the block takes.
SplitResult(A, BeginAddr) == BeginAddr

\* getBBAt, an atom A contains BeginAddr: adopt it, or split it at BeginAddr.
ExistingAtom(BeginAddr, A) ==
  LET doSplit == A # BeginAddr
      atoms1 == IF doSplit THEN split(Atoms, A, BeginAddr) ELSE Atoms
      transfer == doSplit /\ A \in DOMAIN BBInfos /\ BBInfos[A].Atom # None
      succ0 == IF transfer THEN BBInfos[A].SuccAddrs ELSE <<>>
      bb1 == IF transfer
               THEN [BBInfos EXCEPT ![A].SuccAddrs = TruncatedSuccAddrs(@, BeginAddr)]
             ELSE BBInfos
      ta1 == IF doSplit THEN SplitResult(A, BeginAddr) ELSE A
      r == AddSuccessors(ta1, atoms1, succ0, Worklist, CurCallTargets,
                         TailCallTargets)
      fn0 == findFunctionAt(Functions, A)
  IN /\ Atoms' = atoms1
     /\ Functions' = IF doSplit THEN splitFunctions(Functions, A, BeginAddr)
                     ELSE Functions
     /\ Succs' = IF doSplit THEN splitSuccs(Functions, Succs, A, BeginAddr) ELSE Succs
     /\ Preds' = IF doSplit THEN splitPreds(Functions, Succs, Preds, A, BeginAddr)
                 ELSE Preds
     /\ BBInfos' = (BeginAddr :> [Atom |-> ta1, SuccAddrs |-> r.SuccAddrs]) @@ bb1
     /\ Worklist' = r.Worklist
     /\ wi' = wi + 1
     /\ SetAccumulators(r.CallTargets, r.TailCallTargets)
     /\ splitEvt' = IF doSplit /\ wi = 1 /\ fn0 # None
                      THEN [a0 |-> A, a1 |-> BeginAddr, e |-> Atoms[A].End, fn0 |-> fn0,
                            succ0 |-> {x[2][2] : x \in {y \in Succs : y[1] = <<fn0, A>>}}]
                      ELSE splitEvt
     /\ unsplit' = IF transfer
                     THEN (BeginAddr :> [lower |-> A, succ |-> Range(succ0)]) @@ unsplit
                     ELSE unsplit
     /\ UNCHANGED <<inputVars, qryVars, drvVars, cacheVars, cntVars, MCFN, Addr, EndAddr, TA,
                    lookup, pc, err>>

\* getBBAt, no atom at BeginAddr: set up the linear disassembly.
StartDisassembly(BeginAddr) ==
  LET Region == SectionRegions[getRegionFor(SectionRegions, BeginAddr)]
      NextAtom == findFirstAtomAfter(Atoms, BeginAddr)
      end0 == Region.Base + Region.Extent
  IN /\ EndAddr' = IF NextAtom # None THEN Min2(end0, Atoms[NextAtom].Begin) ELSE end0
     /\ Addr' = BeginAddr
     /\ TA' = None
     /\ pc' = "dis"
     /\ UNCHANGED <<inputVars, qryVars, drvVars, tgtVars, modVars, cacheVars, cntVars,
                    MCFN, Worklist, wi, BBInfos, histVars, err>>

\* getBBAt, first loop: one iteration for Worklist[wi].
Phase1 ==
  /\ pc = "phase1"
  /\ wi <= Len(Worklist)
  /\ LET BeginAddr == Worklist[wi]
         A == findAtomContaining(Atoms, BeginAddr)
     IN IF BeginAddr \in DOMAIN BBInfos
          THEN Abort("Discovered basic block already has an associated atom!")
        ELSE IF A # None
          THEN IF ~Atoms[A].IsText
                 THEN Abort("cast<MCTextAtom>")
               ELSE IF A # BeginAddr /\ ~CanSplit(Atoms[A], BeginAddr)
                 THEN Abort("Split point does not fall on instruction boundary!")
               ELSE ExistingAtom(BeginAddr, A)
        ELSE IF getRegionFor(SectionRegions, BeginAddr) = FallbackRegion
          THEN Abort("Couldn't find suitable region for disassembly")
        ELSE IF findFirstAtomAfter(Atoms, BeginAddr) # None
                /\ ~Atoms[findFirstAtomAfter(Atoms, BeginAddr)].IsText
          THEN Abort("cast_or_null<MCTextAtom>")
        ELSE StartDisassembly(BeginAddr)

NewAtomEndPastInst(a, size) == a + size

\* The End getBBAt passes to createTextAtom for the first instruction at a.
NewAtomEnd(a, size) == a

HarvestCallNever(callT, Inst, BranchTarget) == callT

\* getBBAt, after an instruction was appended: "if (MIA.evaluateBranch(...))
\* if (MIA.isCall(Inst)) CallTargets.push_back(BranchTarget)".
HarvestCall(callT, Inst, BranchTarget) ==
  IF BranchTarget # None /\ isCall(Inst) THEN Append(callT, BranchTarget) ELSE callT

\* getBBAt, the linear disassembly: one iteration of the for loop at Addr, and
\* what follows the loop when this iteration ends it.
DisStep ==
  /\ pc = "dis"
  /\ LET BeginAddr == Worklist[wi]
         Region == SectionRegions[getRegionFor(SectionRegions, BeginAddr)]
         c == findCachedInstruction(CachedInsts, LongestCachedRawBytes, Region, Addr)
         d == getInstruction(Region, Addr)
         ok == c.hit \/ d.ok
         Inst == IF c.hit THEN c.Inst ELSE d.Inst
         InstSize == IF c.hit THEN c.InstSize ELSE d.Size
         ta1 == IF ok /\ TA = None THEN Addr ELSE TA
         atoms1 == IF ~ok THEN Atoms
                   ELSE IF TA = None
                     THEN (Addr :> addInst(createTextAtom(Addr, NewAtomEnd(Addr, InstSize)),
                                           Inst, InstSize)) @@ Atoms
                   ELSE [Atoms EXCEPT ![TA] = addInst(@, Inst, InstSize)]
         BranchTarget == IF ok THEN evaluateBranch(Inst, Addr, InstSize) ELSE None
         call1 == HarvestCall(CurCallTargets, Inst, BranchTarget)
         stop == ~ok \/ isTerminator(Inst) \/ ~(Addr + InstSize < EndAddr)
         FailedDisassembly == ~ok
         outcomes == IF ~c.hit /\ d.ok
                       THEN addTempInstruction(CachedInsts, TempInstKeys, TempInstValues,
                                               LongestCachedRawBytes, Inst,
                                               getByteRange(Region, Addr, InstSize))
                       ELSE {[CachedInsts |-> CachedInsts, TempInstKeys |-> TempInstKeys,
                              TempInstValues |-> TempInstValues,
                              Longest |-> LongestCachedRawBytes]}
         r == IF stop /\ ~FailedDisassembly
                THEN AddSuccessors(ta1, atoms1, <<>>, Worklist, call1, TailCallTargets)
                ELSE [SuccAddrs |-> <<>>, Worklist |-> Worklist, CallTargets |-> call1,
                      TailCallTargets |-> TailCallTargets]
     IN IF stop /\ ta1 = None
          THEN Abort("Couldn't disassemble atom, none was created!")
          ELSE \E o \in outcomes :
                 /\ CachedInsts' = o.CachedInsts
                 /\ TempInstKeys' = o.TempInstKeys
                 /\ TempInstValues' = o.TempInstValues
                 /\ LongestCachedRawBytes' = o.Longest
                 /\ Uniqued' = IF c.hit THEN Uniqued + 1 ELSE Uniqued
                 /\ Translated' = IF ~c.hit /\ d.ok THEN Translated + 1 ELSE Translated
                 /\ Atoms' = atoms1
                 /\ SetAccumulators(r.CallTargets, r.TailCallTargets)
                 /\ lookup' = [valid |-> TRUE, Addr |-> Addr, RawBytes |-> c.RawBytes,
                               Table |-> CachedInsts, hit |-> c.hit, Inst |-> c.Inst,
                               InstSize |-> c.InstSize]
                 /\ IF stop
                      THEN /\ BBInfos' = (BeginAddr :> [Atom |-> ta1,
                                                        SuccAddrs |-> r.SuccAddrs]) @@ BBInfos
                           /\ Worklist' = r.Worklist
                           /\ wi' = wi + 1
                           /\ Addr' = None /\ EndAddr' = None /\ TA' = None
                           /\ pc' = "phase1"
                      ELSE /\ Addr' = Addr + InstSize
                           /\ TA' = ta1
                           /\ pc' = "dis"
                           /\ UNCHANGED <<BBInfos, Worklist, wi, EndAddr>>
                 /\ UNCHANGED <<inputVars, qryVars, drvVars, Functions, Succs, Preds, MCFN,
                                splitEvt, unsplit, err>>

WirePredsNone(fn, bbinfos, worklist) == {}

WireSuccsFirstFunction(fn, bbinfos, worklist) ==
  UNION {{<<<<fn, bbinfos[a].Atom>>, <<1, bbinfos[s].Atom>>>> :
            s \in Range(RemoveDupsFromAddressVector(bbinfos[a].SuccAddrs))}
         : a \in Range(worklist)}

\* getBBAt, third loop: BB->addSuccessor(Succ) ...
WireSuccs(fn, bbinfos, worklist) ==
  UNION {{<<<<fn, bbinfos[a].Atom>>, <<fn, bbinfos[s].Atom>>>> :
            s \in Range(RemoveDupsFromAddressVector(bbinfos[a].SuccAddrs))}
         : a \in Range(worklist)}

\* ... and Succ->addPredecessor(BB).
WirePreds(fn, bbinfos, worklist) ==
  UNION {{<<<<fn, bbinfos[s].Atom>>, <<fn, bbinfos[a].Atom>>>> :
            s \in Range(RemoveDupsFromAddressVector(bbinfos[a].SuccAddrs))}
         : a \in Range(worklist)}

\* getBBAt, second and third loop: create the basic blocks, wire the edges,
\* return to createFunction and its caller.
Phase23 ==
  /\ pc = "phase1"
  /\ wi > Len(Worklist)
  /\ IF \E a \in Range(Worklist) : \E s \in Range(BBInfos[a].SuccAddrs) :
          s \notin DOMAIN BBInfos
       THEN Abort("successor without a basic block")
       ELSE /\ Functions' =
                 [Functions EXCEPT ![MCFN].Blocks =
                    @ \o SelectSeq([i \in 1..Len(Worklist) |-> BBInfos[Worklist[i]].Atom],
                                   LAMBDA b : b \notin Range(Functions[MCFN].Blocks))]
            /\ Succs' = Succs \cup WireSuccs(MCFN, BBInfos, Worklist)
            /\ Preds' = Preds \cup WirePreds(MCFN, BBInfos, Worklist)
            /\ pc' = "driver"
            /\ UNCHANGED <<inputVars, qryVars, drvVars, tgtVars, Atoms, cacheVars, cntVars,
                           bbVars, histVars, err>>


(* ----------------- createFunction, buildCFG, buildModule -------------- *)

ExistingFunctionNone(funcs, BeginAddr) == None

\* createFunction: "look for an existing function".
ExistingFunction(funcs, BeginAddr) == findFunctionAt(funcs, BeginAddr)

\* createFunction(Module, BeginAddr, CallTargets, TailCallTargets), up to the
\* call of getBBAt.
createFunction(BeginAddr) ==
  LET ExtFnName == findExternalFunctionAt(ext, getOriginalLoadAddr(BeginAddr))
  IN IF ExtFnName # None
       THEN /\ Functions' = createFunctionNamed(Functions, ExtFnName)
            /\ UNCHANGED <<bbVars, splitEvt, unsplit, pc>>
     ELSE IF ExistingFunction(Functions, BeginAddr) # None
       THEN UNCHANGED <<Functions, bbVars, splitEvt, unsplit, pc>>
     ELSE /\ Functions' = createFunctionNamed(Functions, None)
          /\ MCFN' = Len(Functions) + 1
          /\ Worklist' = <<BeginAddr>>
          /\ wi' = 1
          /\ BBInfos' = EmptyMap
          /\ Addr' = None /\ EndAddr' = None /\ TA' = None
          /\ splitEvt' = NoSplit
          /\ unsplit' = EmptyMap
          /\ pc' = "phase1"

\* The addresses a function symbol may have: the section and one address past it.
SymAddrs == RegionBase..(RegionBase + MemSize)

NoModule == [Built |-> FALSE]
Module == [Built |-> TRUE, Atoms |-> Atoms, Functions |-> Functions,
           Succs |-> Succs, Preds |-> Preds]

\* buildModule(true): buildEmptyModule, the regions (on the first call only),
\* then buildCFG.
StartBuild ==
  /\ run' = run + 1
  /\ SectionRegions' = IF SectionRegions = <<>> THEN BuildRegions(Sections(mem))
                       ELSE SectionRegions
  /\ Atoms' = EmptyMap /\ Functions' = <<>> /\ Succs' = {} /\ Preds' = {}
  /\ CallTargets' = <<>> /\ TailCallTargets' = <<>> /\ NewCallTargets' = <<>>
  /\ mode' = "sweep"
  /\ symIdx' = 1
  /\ pc' = "driver"
  /\ splitEvt' = NoSplit
  /\ unsplit' = EmptyMap
  /\ UNCHANGED <<inputVars, qryVars, symbols, cacheVars, cntVars, bbVars, lookup, err>>

\* The first buildModule(true) on the disassembler.
buildModule ==
  /\ pc = "idle"
  /\ FirstModule' = FirstModule
  /\ StartBuild

\* A second buildModule(true) on the same disassembler and the same object.
buildModuleAgain ==
  /\ pc = "done"
  /\ run = 1
  /\ FirstModule' = Module
  /\ StartBuild

\* buildCFG, the symbol loop: the next function symbol.  The first run reads
\* the symbol table, the second run reads the same table again.
SweepSymbol ==
  /\ pc = "driver"
  /\ mode = "sweep"
  /\ \E a \in SymAddrs :
       /\ IF run = 1
            THEN Len(symbols) < MaxSyms /\ symbols' = Append(symbols, a)
            ELSE symIdx <= Len(symbols) /\ a = symbols[symIdx] /\ symbols' = symbols
       /\ symIdx' = symIdx + 1
       /\ LET SymAddr == getEffectiveLoadAddr(a)
          IN IF getRegionFor(SectionRegions, SymAddr) = FallbackRegion
               THEN UNCHANGED <<Functions, bbVars, splitEvt, unsplit, pc>>
               ELSE createFunction(SymAddr)
       /\ UNCHANGED <<inputVars, qryVars, run, mode, SectionRegions, FirstModule, tgtVars,
                      Atoms, Succs, Preds, cacheVars, cntVars, lookup, err>>

WhileConditionCallTargets(callTargets, newCallTargets) == callTargets # <<>>

\* buildCFG: the condition of the while loop.
WhileCondition(callTargets, newCallTargets) == newCallTargets # <<>>

\* buildCFG after the symbol loop: the two RemoveDups calls, then the while
\* loop, one createFunction per step.
buildCFGLoop ==
  /\ pc = "driver"
  /\ IF mode = "sweep"
       THEN /\ run = 1 \/ symIdx > Len(symbols)
            /\ CallTargets' = RemoveDupsFromAddressVector(CallTargets)
            /\ TailCallTargets' = RemoveDupsFromAddressVector(TailCallTargets)
            /\ NewCallTargets' = <<>>
            /\ symIdx' = 1
            /\ IF WhileCondition(RemoveDupsFromAddressVector(CallTargets), <<>>)
                 THEN mode' = "fixpoint" /\ pc' = pc
                 ELSE mode' = mode /\ pc' = "done"
            /\ UNCHANGED <<Functions, bbVars, splitEvt, unsplit>>
       ELSE IF symIdx <= Len(CallTargets)
         THEN /\ createFunction(getEffectiveLoadAddr(CallTargets[symIdx]))
              /\ symIdx' = symIdx + 1
              /\ UNCHANGED <<mode, tgtVars>>
         ELSE /\ CallTargets' = RemoveDupsFromAddressVector(NewCallTargets)
              /\ NewCallTargets' = RemoveDupsFromAddressVector(NewCallTargets)
              /\ symIdx' = 1
              /\ pc' = IF WhileCondition(RemoveDupsFromAddressVector(NewCallTargets),
                                         RemoveDupsFromAddressVector(NewCallTargets))
                         THEN pc ELSE "done"
              /\ UNCHANGED <<mode, TailCallTargets, Functions, bbVars, splitEvt, unsplit>>
  /\ UNCHANGED <<inputVars, qryVars, symbols, run, SectionRegions, FirstModule, Atoms, Succs,
                 Preds, cacheVars, cntVars, lookup, err>>

(* ------------------- Mach-O object disassembler ----------------------- *)

\* uint64_t arithmetic wraps at 2^AddrBits.
Wrap(x) == x % (2 ^ AddrBits)

\* The object of the base disassembler: no Mach-O load commands.
NoMachO == [cmds |-> <<>>, syms |-> <<>>]

NoCall == [fn |-> "none"]

MachOgetOriginalLoadAddrNoSlide(EffectiveAddr) == EffectiveAddr

\* MCMachOObjectDisassembler::getOriginalLoadAddr
MachOgetOriginalLoadAddr(EffectiveAddr) == Wrap(EffectiveAddr - VMAddrSlide)

\* MCMachOObjectDisassembler::getEffectiveLoadAddr
MachOgetEffectiveLoadAddr(a) == Wrap(a + VMAddrSlide)

\* MCObjectDisassembler::getEntrypoint: the effective address of the first
\* symbol named main or _main, else 0.  getEffectiveLoadAddr is virtual: on a
\* Mach-O disassembler the call runs the override.
getEntrypoint(syms) ==
  LET named == {i \in 1..Len(syms) : syms[i].Name \in {"main", "_main"}}
  IN IF named = {} THEN 0
     ELSE MachOgetEffectiveLoadAddr(
            syms[CHOOSE i \in named : \A k \in named : i <= k].Address)

\* MCMachOObjectDisassembler::getEntrypoint, the scan: the entryoff of the
\* first LC_MAIN load command, else 0.
EntryFileOffset(cmds) ==
  LET mains == {i \in 1..Len(cmds) : cmds[i].cmd = "LC_MAIN"}
  IN IF mains = {} THEN 0
     ELSE cmds[CHOOSE i \in mains : \A k \in mains : i <= k].entryoff

\* MCMachOObjectDisassembler::getEntrypoint
MachOgetEntrypoint(moof) ==
  IF EntryFileOffset(moof.cmds) # 0
    THEN getEntrypoint(moof.syms)
    ELSE Wrap(EntryFileOffset(moof.cmds) + HeaderLoadAddress)

\* A call of getEntrypoint on the Mach-O disassembler.
getEntrypointCall ==
  /\ pc = "query"
  /\ MOOF.cmds # <<>>
  /\ ret' = [fn |-> "getEntrypoint", value |-> MachOgetEntrypoint(MOOF)]
  /\ UNCHANGED <<inputVars, MOOF, VMAddrSlide, HeaderLoadAddress, drvVars, tgtVars,
                 modVars, cacheVars, cntVars, bbVars, histVars, pc, err>>

\* Calls of getEffectiveLoadAddr and getOriginalLoadAddr, each applied to an
\* address and to the other's result, on the Mach-O and the base disassembler.
LoadAddrCall ==
  /\ pc = "query"
  /\ \E a \in 0..(2 ^ AddrBits - 1) :
       ret' = [fn |-> "LoadAddr", a |-> a,
               effective |-> MachOgetEffectiveLoadAddr(a),
               original |-> MachOgetOriginalLoadAddr(a),
               originalOfEffective |->
                 MachOgetOriginalLoadAddr(MachOgetEffectiveLoadAddr(a)),
               effectiveOfOriginal |->
                 MachOgetEffectiveLoadAddr(MachOgetOriginalLoadAddr(a)),
               baseEffective |-> getEffectiveLoadAddr(a),
               baseOriginal |-> getOriginalLoadAddr(a)]
  /\ UNCHANGED <<inputVars, MOOF, VMAddrSlide, HeaderLoadAddress, drvVars, tgtVars,
                 modVars, cacheVars, cntVars, bbVars, histVars, pc, err>>

(* --------------------------- specification ---------------------------- *)

Init ==
  /\ mem \in [1..MemSize -> Bytes]
  /\ ext \in {{}, {RegionBase + MemSize - 1}}
  /\ symbols = <<>>
  /\ pc = "idle"
  /\ err = ""
  /\ run = 0
  /\ mode = "sweep"
  /\ symIdx = 1
  /\ SectionRegions = <<>>
  /\ Atoms = EmptyMap /\ Functions = <<>> /\ Succs = {} /\ Preds = {}
  /\ FirstModule = NoModule
  /\ CallTargets = <<>> /\ TailCallTargets = <<>> /\ NewCallTargets = <<>>
  /\ CachedInsts = <<>> /\ TempInstKeys = <<>> /\ TempInstValues = <<>>
  /\ LongestCachedRawBytes = 0
  /\ Uniqued = 0 /\ Translated = 0
  /\ MCFN = None /\ Worklist = <<>> /\ wi = 1 /\ BBInfos = EmptyMap
  /\ Addr = None /\ EndAddr = None /\ TA = None
  /\ lookup = NoLookup
  /\ splitEvt = NoSplit
  /\ unsplit = EmptyMap
  /\ MOOF = NoMachO /\ VMAddrSlide = 0 /\ HeaderLoadAddress = 0
  /\ ret = NoCall

Next ==
  \/ buildModule
  \/ SweepSymbol
  \/ buildCFGLoop
  \/ Phase1
  \/ DisStep
  \/ Phase23

Spec == Init /\ [][Next]_vars

\* One buildModule(true) in which every loop iteration of getBBAt that can run
\* does run: the program is sequential, no step waits for another.
SpecLive ==
  /\ Init /\ [][Next]_vars
  /\ WF_vars(Phase1) /\ WF_vars(Phase23)
  /\ ([]<>(pc # "dis") \/ []<><<DisStep>>_vars)

\* buildModule(true) called twice.
NextTwice == Next \/ buildModuleAgain

SpecTwice == Init /\ [][NextTwice]_vars


\* A call of getRegionFor.
getRegionForCall ==
  /\ pc = "query"
  /\ \E a \in (RegionBase - 1)..(RegionBase + 2 * MemSize + 2) :
       ret' = [fn |-> "getRegionFor", a |-> a,
               region |-> getRegionFor(SectionRegions, a)]
  /\ UNCHANGED <<inputVars, MOOF, VMAddrSlide, HeaderLoadAddress, drvVars, tgtVars,
                 modVars, cacheVars, cntVars, bbVars, histVars, pc, err>>

\* The regions of non-empty text sections near RegionBase.
Regions ==
  {[Base |-> b, Extent |-> e, Bytes |-> [i \in 1..e |-> 0]] :
     b \in RegionBase..(RegionBase + MemSize + 1), e \in 1..MemSize}

\* SectionRegions as buildModule leaves it for an object whose text sections
\* do not overlap: sorted by base, pairwise disjoint.
RegionLists ==
  {s \in UNION {[1..n -> Regions] : n \in 0..MaxRegions} :
     \A i \in 1..Len(s) : \A j \in 1..Len(s) :
       i < j => s[i].Base + s[i].Extent <= s[j].Base}

\* The load commands a Mach-O header may list.
LoadCommands ==
  {[cmd |-> "LC_SEGMENT_64", entryoff |-> 0]}
    \cup {[cmd |-> "LC_MAIN", entryoff |-> e] : e \in {0, 1, 2 ^ AddrBits - 1}}

\* Headers with one or two load commands.
LoadCommandLists ==
  {<<c>> : c \in LoadCommands} \cup {<<c, d>> : c \in LoadCommands, d \in LoadCommands}

\* Symbol tables with and without a main symbol.
SymbolTables ==
  {<<>>, <<[Name |-> "start", Address |-> 2], [Name |-> "_main", Address |-> 1]>>}
    \cup {<<[Name |-> n, Address |-> 1]>> : n \in {"main", "_main", "start"}}

\* A Mach-O disassembler after construction, before any module is built.
InitQuery ==
  /\ mem = [i \in 1..MemSize |-> 0]
  /\ ext = {}
  /\ symbols = <<>>
  /\ pc = "query"
  /\ err = ""
  /\ run = 0
  /\ mode = "sweep"
  /\ symIdx = 1
  /\ Atoms = EmptyMap /\ Functions = <<>> /\ Succs = {} /\ Preds = {}
  /\ FirstModule = NoModule
  /\ CallTargets = <<>> /\ TailCallTargets = <<>> /\ NewCallTargets = <<>>
  /\ CachedInsts = <<>> /\ TempInstKeys = <<>> /\ TempInstValues = <<>>
  /\ LongestCachedRawBytes = 0
  /\ Uniqued = 0 /\ Translated = 0
  /\ MCFN = None /\ Worklist = <<>> /\ wi = 1 /\ BBInfos = EmptyMap
  /\ Addr = None /\ EndAddr = None /\ TA = None
  /\ lookup = NoLookup
  /\ splitEvt = NoSplit
  /\ unsplit = EmptyMap
  /\ ret = NoCall
  /\ \/ /\ SectionRegions = <<>>
        /\ MOOF \in [cmds : LoadCommandLists, syms : SymbolTables]
        /\ VMAddrSlide \in 0..(2 ^ AddrBits - 1)
        /\ HeaderLoadAddress \in {0, 1, 2 ^ AddrBits - 1}
     \/ /\ SectionRegions \in RegionLists
        /\ MOOF = [cmds |-> <<[cmd |-> "LC_SEGMENT_64", entryoff |-> 0]>>, syms |-> <<>>]
        /\ VMAddrSlide = 0
        /\ HeaderLoadAddress = 0

NextQuery ==
  \/ getEntrypointCall
  \/ LoadAddrCall
  \/ getRegionForCall

\* The queries on a Mach-O disassembler.
SpecQuery == InitQuery /\ [][NextQuery]_vars


(* ------------------------------ claims -------------------------------- *)

\* The successor addresses of a basic block.
SuccAddrsOf(b) == {e[2][2] : e \in {x \in Succs : x[1] = b}}

\* The bytes of the section from address a to its end.
BytesFrom(a) ==
  LET r == getRegionFor(SectionRegions, a)
  IN IF r = FallbackRegion THEN <<>>
     ELSE getByteRange(SectionRegions[r], a, SectionRegions[r].Extent)

\* C1: atom disjointness: no two atoms of the module share an address, so an
\* atom built by linear disassembly ends before the next atom begins.
C1_AtomDisjointness ==
  \A b1 \in DOMAIN Atoms : \A b2 \in DOMAIN Atoms :
    b1 # b2 => Atoms[b1].End < Atoms[b2].Begin \/ Atoms[b2].End < Atoms[b1].Begin

\* C2: text-atom contiguity: every text atom is non-empty, its first
\* instruction is at its begin, each instruction starts where the previous one
\* ends, and the last instruction ends at the atom's end.
C2_TextAtomContiguity ==
  \A b \in DOMAIN Atoms :
    Atoms[b].IsText =>
      LET I == Atoms[b].Insts
      IN /\ Len(I) > 0
         /\ I[1].Address = Atoms[b].Begin
         /\ \A k \in 1..(Len(I) - 1) : I[k].Address + I[k].Size = I[k + 1].Address
         /\ I[Len(I)].Address + I[Len(I)].Size - 1 = Atoms[b].End

\* C2 witness: a build in which getBBAt disassembled an atom of several
\* instructions, split an atom and adopted one.
C2_Witness ==
  /\ pc = "done"
  /\ splitEvt.a0 # None
  /\ \E b \in DOMAIN Atoms : Len(Atoms[b].Insts) >= 2
  /\ \E f \in 1..Len(Functions) : Len(Functions[f].Blocks) >= 2

HasFunctionAt(t) ==
  \/ findFunctionAt(Functions, t) # None
  \/ \E f \in 1..Len(Functions) : Functions[f].Name = t

\* C4: fixpoint call discovery: when buildModule(true) returns, the module has
\* a function at every call target harvested during the symbol sweep.
C4_FixpointCallDiscovery ==
  pc = "done" => \A t \in Range(CallTargets) : HasFunctionAt(t)

\* C5: decode failures are local: a getBBAt call that has an atom at its entry
\* address is never stopped by a decode failure at an address reached later.
C5_DecodeFailuresLocal ==
  ~ /\ pc = "aborted"
    /\ err = "Couldn't disassemble atom, none was created!"
    /\ Worklist[1] \in DOMAIN BBInfos

\* C6: decode-cache soundness: a hit of findCachedInstruction at an address is
\* what the decoder returns there, and its size is the length of the cached
\* raw bytes.
C6_CacheSoundness ==
  (lookup.valid /\ lookup.hit) =>
    LET d == DecodeBytes(BytesFrom(lookup.Addr))
    IN /\ d.ok
       /\ d.Inst = lookup.Inst
       /\ d.Size = lookup.InstSize
       /\ \E i \in 1..Len(lookup.Table) :
            /\ lookup.Table[i].Inst = lookup.Inst
            /\ Len(lookup.Table[i].RawBytes) = lookup.InstSize
            /\ StartsWith(BytesFrom(lookup.Addr), lookup.Table[i].RawBytes)

\* C6 witness: a lookup hit a table that holds entries of two lengths.
C6_Witness ==
  /\ lookup.valid
  /\ lookup.hit
  /\ \E i \in 1..Len(lookup.Table) : \E j \in 1..Len(lookup.Table) :
       Len(lookup.Table[i].RawBytes) # Len(lookup.Table[j].RawBytes)

\* The lookup rule as stated: take the greatest entry that is <= the window;
\* hit iff the window starts with that entry's raw bytes.
GreatestEntryRule(table, window) ==
  LET le == {i \in 1..Len(table) : ~LexLess(window, table[i].RawBytes)}
  IN /\ le # {}
     /\ StartsWith(window, table[CHOOSE i \in le : \A k \in le : k <= i].RawBytes)

\* C7: cache lookup rule: findCachedInstruction hits iff the window starts with
\* the greatest cached entry that is <= the window.
C7_LookupRule ==
  lookup.valid => (lookup.hit <=> GreatestEntryRule(lookup.Table, lookup.RawBytes))

\* C8: cache hit after flush: a lookup at an address whose bytes begin with the
\* raw bytes of an entry of Cached is a hit; with an empty Cached it is a miss.
C8_HitAfterFlush ==
  lookup.valid =>
    IF lookup.Table = <<>> THEN ~lookup.hit
    ELSE (\E i \in 1..Len(lookup.Table) :
            StartsWith(BytesFrom(lookup.Addr), lookup.Table[i].RawBytes))
         => lookup.hit

\* C9: idempotence: the second buildModule(true) returns a module with the
\* atoms, instructions, functions and edges of the first.
C9_Idempotence == (pc = "done" /\ run = 2) => Module = FirstModule

\* C9 witness: the second build is done, it took instructions from the cache,
\* and the module has a split atom and edges.
C9_Witness ==
  /\ pc = "done"
  /\ run = 2
  /\ Uniqued > 0
  /\ Translated > 0
  /\ Succs # {}
  /\ Len(Functions) >= 2

\* C10: atom split across functions: after createFunction(a1) for an address
\* inside the atom [a0, e] of an earlier function, the atoms are [a0, a1-1]
\* (still a block of the first function) and [a1, e] (entry block of the new
\* function); the new entry block has the successor addresses the block at a0
\* had, and the block at a0 has the single successor a1.
C10_SplitAcrossFunctions ==
  (pc \in {"driver", "done"} /\ splitEvt.a0 # None) =>
    /\ splitEvt.a0 \in DOMAIN Atoms
    /\ Atoms[splitEvt.a0].End = splitEvt.a1 - 1
    /\ splitEvt.a1 \in DOMAIN Atoms
    /\ Atoms[splitEvt.a1].End = splitEvt.e
    /\ <<splitEvt.fn0, splitEvt.a0>> \in BlocksOf(Functions)
    /\ MCFN # splitEvt.fn0
    /\ Functions[MCFN].Blocks # <<>>
    /\ Functions[MCFN].Blocks[1] = splitEvt.a1
    /\ SuccAddrsOf(<<MCFN, splitEvt.a1>>) = splitEvt.succ0
    /\ SuccAddrsOf(<<splitEvt.fn0, splitEvt.a0>>) = {splitEvt.a1}

\* C10 witness: such a split happened where the block at a0 had a successor.
C10_Witness ==
  /\ pc = "done"
  /\ splitEvt.a0 # None
  /\ splitEvt.succ0 # {}

\* The trailing instruction of the atom that begins at b.
BackInst(b) == Atoms[b].Insts[Len(Atoms[b].Insts)]

\* The blocks <<f, b>> whose trailing branch has a resolvable target the
\* symbolizer names as an external function, with that target.
ExternalTailBranches ==
  {<<blk, evaluateBranch(BackInst(blk[2]).Inst, BackInst(blk[2]).Address,
                         BackInst(blk[2]).Size)>> :
     blk \in {x \in BlocksOf(Functions) :
                /\ x[2] \in DOMAIN Atoms
                /\ Atoms[x[2]].Insts # <<>>
                /\ isBranch(BackInst(x[2]).Inst)
                /\ evaluateBranch(BackInst(x[2]).Inst, BackInst(x[2]).Address,
                                  BackInst(x[2]).Size) # None
                /\ findExternalFunctionAt(ext,
                     getOriginalLoadAddr(evaluateBranch(BackInst(x[2]).Inst,
                       BackInst(x[2]).Address, BackInst(x[2]).Size))) # None}}

\* C11 as stated: tail call to external: when getBBAt has returned, the target
\* T of a block's trailing branch to an external function is in both
\* accumulators and the block has no successor edge to T.
C11_TailCallNoEdge ==
  pc \in {"driver", "done"} =>
    \A x \in ExternalTailBranches :
      /\ x[2] \in Range(TailCallTargets)
      /\ x[2] \in Range(CallTargets)
      /\ x[2] \notin SuccAddrsOf(x[1])

\* C11: tail call to external: the target T of a block's trailing branch to an
\* external function is in both accumulators, and the block has a successor
\* edge to T only when the branch is conditional and T is the block's own
\* fallthrough address end+1.
C11_TailCallNoEdgeButFallthrough ==
  pc \in {"driver", "done"} =>
    \A x \in ExternalTailBranches :
      /\ x[2] \in Range(TailCallTargets)
      /\ x[2] \in Range(CallTargets)
      /\ x[2] \in SuccAddrsOf(x[1]) =>
           /\ isConditionalBranch(BackInst(x[1][2]).Inst)
           /\ x[2] = Atoms[x[1][2]].End + 1

\* C11 witness: getBBAt returned a block that ends in an unconditional branch
\* to an external function.
C11_Witness ==
  /\ pc = "done"
  /\ \E x \in ExternalTailBranches :
       /\ ~isConditionalBranch(BackInst(x[1][2]).Inst)
       /\ x[2] \in Range(TailCallTargets)
       /\ SuccAddrsOf(x[1]) = {}

\* C12: external function materialization: when buildModule(true) returns, the
\* module has a function named after every external function that was
\* recorded as a tail-call target.
C12_ExternalMaterialized ==
  pc = "done" =>
    \A t \in Range(TailCallTargets) :
      \E f \in 1..Len(Functions) :
        Functions[f].Name = findExternalFunctionAt(ext, getOriginalLoadAddr(t))

\* The entry address of function f: the begin address of its first block.
EntryOf(f) == Functions[f].Blocks[1]

\* C13: one function per entry address: no two functions of the module have
\* the same entry address, and a createFunction call of the symbol loop for a
\* non-external address that already has a function leaves the functions, the
\* blocks, the edges and the atoms of the module as they were.
C13_OneFunctionPerEntry ==
  /\ [](pc \in {"driver", "done"} =>
          \A f \in 1..Len(Functions) : \A g \in 1..Len(Functions) :
            (f # g /\ Functions[f].Blocks # <<>> /\ Functions[g].Blocks # <<>>)
              => EntryOf(f) # EntryOf(g))
  /\ [][(/\ pc = "driver" /\ mode = "sweep" /\ symIdx' = symIdx + 1
         /\ symIdx <= Len(symbols')
         /\ findExternalFunctionAt(ext, getOriginalLoadAddr(symbols'[symIdx])) = None
         /\ findFunctionAt(Functions, symbols'[symIdx]) # None)
        => (/\ Functions' = Functions /\ Atoms' = Atoms
            /\ Succs' = Succs /\ Preds' = Preds /\ pc' = "driver")]_vars

\* C13 witness: createFunction was called twice for the same non-external
\* address and the module has the one function the first call built.
C13_Witness ==
  /\ pc = "done"
  /\ Len(symbols) = 2
  /\ symbols[1] = symbols[2]
  /\ symbols[1] \notin ext
  /\ Len(Functions) = 1
  /\ Functions[1].Blocks # <<>>
  /\ EntryOf(1) = symbols[1]

\* A header lists an LC_MAIN load command.
HasLCMain(cmds) == \E i \in 1..Len(cmds) : cmds[i].cmd = "LC_MAIN"

\* The entryoff of the first LC_MAIN load command.
FirstLCMainEntryoff(cmds) ==
  cmds[CHOOSE i \in 1..Len(cmds) :
         /\ cmds[i].cmd = "LC_MAIN"
         /\ \A k \in 1..(i - 1) : cmds[k].cmd # "LC_MAIN"].entryoff

\* C14: Mach-O entrypoint: getEntrypoint returns entryoff + HeaderLoadAddress
\* when the header has an LC_MAIN load command, and otherwise the effective
\* address of the first symbol named main or _main.
C14_MachOEntrypoint ==
  ret.fn = "getEntrypoint" =>
    IF HasLCMain(MOOF.cmds)
      THEN ret.value = (FirstLCMainEntryoff(MOOF.cmds) + HeaderLoadAddress) % (2 ^ AddrBits)
      ELSE \A i \in 1..Len(MOOF.syms) :
             (/\ MOOF.syms[i].Name \in {"main", "_main"}
              /\ \A k \in 1..(i - 1) : MOOF.syms[k].Name \notin {"main", "_main"})
               => ret.value = (MOOF.syms[i].Address + VMAddrSlide) % (2 ^ AddrBits)

\* C15: slide round trip: on the Mach-O disassembler getOriginalLoadAddr undoes
\* getEffectiveLoadAddr and the other way round, modulo the word size; on the
\* base disassembler both are the identity.
C15_SlideRoundTrip ==
  ret.fn = "LoadAddr" =>
    /\ ret.originalOfEffective = ret.a
    /\ ret.effectiveOfOriginal = ret.a
    /\ ret.effective = (ret.a + VMAddrSlide) % (2 ^ AddrBits)
    /\ ret.original = (ret.a - VMAddrSlide) % (2 ^ AddrBits)
    /\ ret.baseEffective = ret.a
    /\ ret.baseOriginal = ret.a

\* C15 witness: a round trip in which the addition wrapped around.
C15_Witness ==
  /\ ret.fn = "LoadAddr"
  /\ VMAddrSlide > 0
  /\ ret.a + VMAddrSlide >= 2 ^ AddrBits
  /\ ret.effective < ret.a
  /\ ret.originalOfEffective = ret.a

\* The regions of a list that contain address a.
RegionsContaining(regions, a) ==
  {i \in 1..Len(regions) :
     regions[i].Base <= a /\ a < regions[i].Base + regions[i].Extent}

EndRegionOf(a) ==
  SectionRegions[getRegionFor(SectionRegions, a)].Base
    + SectionRegions[getRegionFor(SectionRegions, a)].Extent

\* The blocks <<f, b>> whose trailing instruction is a conditional branch with
\* a resolvable target that is not an external function.
ConditionalBranchBlocks ==
  {x \in BlocksOf(Functions) :
     /\ x[2] \in DOMAIN Atoms
     /\ Atoms[x[2]].Insts # <<>>
     /\ isConditionalBranch(BackInst(x[2]).Inst)
     /\ evaluateBranch(BackInst(x[2]).Inst, BackInst(x[2]).Address,
                       BackInst(x[2]).Size) # None
     /\ findExternalFunctionAt(ext,
          getOriginalLoadAddr(evaluateBranch(BackInst(x[2]).Inst,
            BackInst(x[2]).Address, BackInst(x[2]).Size))) = None}

ByteAt(a) == mem[a - RegionBase + 1]

\* Address a starts a straight-line run that ends at address e: one-byte
\* instructions that are no terminator, then a ret, all inside the section.
LinearRun(a, e) ==
  /\ RegionBase <= a /\ a <= e /\ e < RegionBase + MemSize
  /\ \A k \in a..(e - 1) : Mnemonic(ByteAt(k)) = "nop"
  /\ Mnemonic(ByteAt(e)) = "ret"

\* C18: linear block: when the one function symbol of the object is at the
\* start of a straight-line run that ends in a ret, buildModule(true) returns
\* one function with one basic block that covers the run and has no
\* successors and no predecessors.
C18_LinearBlock ==
  (pc = "done" /\ Len(symbols) = 1 /\ symbols[1] \notin ext) =>
    \A e \in RegionBase..(RegionBase + MemSize - 1) :
      LinearRun(symbols[1], e) =>
        /\ Len(Functions) = 1
        /\ Functions[1].Blocks = <<symbols[1]>>
        /\ DOMAIN Atoms = {symbols[1]}
        /\ Atoms[symbols[1]].Begin = symbols[1]
        /\ Atoms[symbols[1]].End = e
        /\ Len(Atoms[symbols[1]].Insts) = e - symbols[1] + 1
        /\ Succs = {}
        /\ Preds = {}

\* C18 witness: the build of a function of three instructions, the last a ret.
C18_Witness ==
  /\ pc = "done"
  /\ symbols = <<RegionBase>>
  /\ RegionBase \notin ext
  /\ LinearRun(RegionBase, RegionBase + 2)
  /\ Len(Functions) = 1
  /\ RegionBase \in DOMAIN Atoms
  /\ Atoms[RegionBase].End = RegionBase + 2

SplitPending ==
  /\ pc = "phase1"
  /\ wi <= Len(Worklist)
  /\ Worklist[wi] \notin DOMAIN BBInfos
  /\ findAtomContaining(Atoms, Worklist[wi]) # None
  /\ Atoms[findAtomContaining(Atoms, Worklist[wi])].IsText
  /\ findAtomContaining(Atoms, Worklist[wi]) # Worklist[wi]

\* C20: no mid-instruction split: every address at which getBBAt splits an
\* existing text atom is the start address of one of that atom's instructions.
C20_NoMidInstructionSplit ==
  SplitPending =>
    CanSplit(Atoms[findAtomContaining(Atoms, Worklist[wi])], Worklist[wi])

(* ------------------- buildModule(false): linear sweep ------------------ *)

\* MCModule::createDataAtom(Begin, End)
createDataAtom(Begin, End) ==
  [Begin |-> Begin, End |-> End, Insts |-> <<>>, IsText |-> FALSE, Data |-> <<>>]

\* MCDataAtom::addData: the byte is appended and the atom grows when it holds
\* more bytes than its range.
addData(atom, D) ==
  [atom EXCEPT !.Data = Append(@, D),
               !.End = Max2(@, atom.Begin + Len(atom.Data))]

\* addData for the bytes ds, in order.
RECURSIVE addDataAll(_, _)
addDataAll(atom, ds) ==
  IF ds = <<>> THEN atom ELSE addDataAll(addData(atom, Head(ds)), Tail(ds))

InvalidDataAfterInstKept(InvalidData) == InvalidData

\* buildSectionAtoms: InvalidData after an instruction was decoded.
InvalidDataAfterInst(InvalidData) == None

\* buildSectionAtoms, the loop over a text section from Index on: Text and
\* InvalidData are the begin addresses of the atoms being filled, or None.
RECURSIVE SweepText(_, _, _, _, _)
SweepText(memoryObject, Index, Text, InvalidData, atoms) ==
  IF Index >= memoryObject.Extent THEN atoms
  ELSE
    LET CurAddr == memoryObject.Base + Index
        d == getInstruction(memoryObject, CurAddr)
    IN IF d.ok
         THEN LET T == IF Text = None THEN CurAddr ELSE Text
                  a1 == IF Text = None
                          THEN (CurAddr :> createTextAtom(CurAddr, CurAddr)) @@ atoms
                          ELSE atoms
              IN SweepText(memoryObject, Index + d.Size, T,
                           InvalidDataAfterInst(InvalidData),
                           [a1 EXCEPT ![T] = addInst(@, d.Inst, d.Size)])
         ELSE LET D == IF InvalidData = None THEN CurAddr ELSE InvalidData
                  a1 == IF InvalidData = None
                          THEN (CurAddr :> createDataAtom(CurAddr, CurAddr + d.Size - 1))
                                 @@ atoms
                          ELSE atoms
              IN SweepText(memoryObject, Index + d.Size,
                           IF InvalidData = None THEN None ELSE Text, D,
                           [a1 EXCEPT ![D] =
                              addDataAll(@, SubSeq(memoryObject.Bytes, Index + 1,
                                                   Index + d.Size))])

\* buildSectionAtoms: sections without contents are skipped, a text section is
\* swept from its first byte.
buildSectionAtoms(secs) ==
  IF ~secs[1].isText \/ Len(secs[1].Contents) = 0 THEN EmptyMap
  ELSE SweepText([Base |-> getEffectiveLoadAddr(secs[1].Address),
                  Extent |-> Len(secs[1].Contents),
                  Bytes |-> secs[1].Contents], 0, None, None, EmptyMap)

\* buildModule(false): buildEmptyModule, the regions, then buildSectionAtoms.
buildModuleNoCFG ==
  /\ pc = "nocfg"
  /\ run' = run + 1
  /\ SectionRegions' = IF SectionRegions = <<>> THEN BuildRegions(Sections(mem))
                       ELSE SectionRegions
  /\ Atoms' = buildSectionAtoms(Sections(mem))
  /\ Functions' = <<>> /\ Succs' = {} /\ Preds' = {}
  /\ pc' = "swept"
  /\ UNCHANGED <<inputVars, qryVars, symbols, mode, symIdx, FirstModule, tgtVars,
                 cacheVars, cntVars, bbVars, histVars, err>>

\* An object with a text section of up to MemSize bytes, before buildModule(false).
InitSweep ==
  /\ mem \in UNION {[1..n -> Bytes] : n \in 0..MemSize}
  /\ ext = {}
  /\ symbols = <<>>
  /\ pc = "nocfg"
  /\ err = ""
  /\ run = 0
  /\ mode = "sweep"
  /\ symIdx = 1
  /\ SectionRegions = <<>>
  /\ Atoms = EmptyMap /\ Functions = <<>> /\ Succs = {} /\ Preds = {}
  /\ FirstModule = NoModule
  /\ CallTargets = <<>> /\ TailCallTargets = <<>> /\ NewCallTargets = <<>>
  /\ CachedInsts = <<>> /\ TempInstKeys = <<>> /\ TempInstValues = <<>>
  /\ LongestCachedRawBytes = 0
  /\ Uniqued = 0 /\ Translated = 0
  /\ MCFN = None /\ Worklist = <<>> /\ wi = 1 /\ BBInfos = EmptyMap
  /\ Addr = None /\ EndAddr = None /\ TA = None
  /\ lookup = NoLookup
  /\ splitEvt = NoSplit
  /\ unsplit = EmptyMap
  /\ MOOF = NoMachO /\ VMAddrSlide = 0 /\ HeaderLoadAddress = 0
  /\ ret = NoCall

NextSweep == buildModuleNoCFG

SpecSweep == InitSweep /\ [][NextSweep]_vars

\* The addresses of the text section.
SectionAddrs == RegionBase..(RegionBase + Len(mem) - 1)

\* The decoder's answer at address a of the text section.
DecodeAt(a) == DecodeBytes(SubSeq(mem, a - RegionBase + 1, Len(mem)))

\* The atom at b is a run of decoded instructions: they follow one another from
\* Begin to End and each is what the decoder returns at its address.
IsDecodedRun(b) ==
  /\ Atoms[b].IsText
  /\ Atoms[b].Insts # <<>>
  /\ Atoms[b].Insts[1].Address = Atoms[b].Begin
  /\ \A i \in 1..Len(Atoms[b].Insts) :
       /\ DecodeAt(Atoms[b].Insts[i].Address).ok
       /\ DecodeAt(Atoms[b].Insts[i].Address).Size = Atoms[b].Insts[i].Size
       /\ DecodeAt(Atoms[b].Insts[i].Address).Inst = Atoms[b].Insts[i].Inst
       /\ Atoms[b].Insts[i].Address + Atoms[b].Insts[i].Size =
            IF i < Len(Atoms[b].Insts) THEN Atoms[b].Insts[i + 1].Address
            ELSE Atoms[b].End + 1

\* The atom at b is a run of decode failures: the decoder fails at each of its
\* addresses and its data are the section's bytes over its range.
IsFailureRun(b) ==
  /\ ~Atoms[b].IsText
  /\ Len(Atoms[b].Data) = Atoms[b].End - Atoms[b].Begin + 1
  /\ \A a \in Atoms[b].Begin..Atoms[b].End :
       /\ ~DecodeAt(a).ok
       /\ Atoms[b].Data[a - Atoms[b].Begin + 1] = mem[a - RegionBase + 1]

\* C19: linear sweep partition: after buildModule(false) the atoms of the text
\* section are pairwise disjoint and cover every byte of it, each is a run of
\* decoded instructions (text atom) or a run of decode failures (data atom with
\* as many bytes as its range is long), no two atoms of one kind are adjacent,
\* and the module has no function, block or edge.
C19_LinearSweepPartition ==
  pc = "swept" =>
    /\ \A b \in DOMAIN Atoms :
         /\ Atoms[b].Begin = b
         /\ b <= Atoms[b].End
         /\ b \in SectionAddrs /\ Atoms[b].End \in SectionAddrs
         /\ IsDecodedRun(b) \/ IsFailureRun(b)
    /\ \A b1 \in DOMAIN Atoms : \A b2 \in DOMAIN Atoms :
         b1 < b2 =>
           /\ Atoms[b1].End < b2
           /\ Atoms[b1].End + 1 = b2 => Atoms[b1].IsText # Atoms[b2].IsText
    /\ \A a \in SectionAddrs :
         \E b \in DOMAIN Atoms : b <= a /\ a <= Atoms[b].End
    /\ Functions = <<>>
    /\ Succs = {}
    /\ Preds = {}

\* C19 witness: the sweep of a section made a data atom between two text atoms.
C19_Witness ==
  /\ pc = "swept"
  /\ Len(mem) = MemSize
  /\ \E b \in DOMAIN Atoms :
       /\ ~Atoms[b].IsText
       /\ \E t1 \in DOMAIN Atoms : Atoms[t1].IsText /\ Atoms[t1].End + 1 = b
       /\ \E t2 \in DOMAIN Atoms : Atoms[t2].IsText /\ Atoms[b].End + 1 = t2

(* ---------------- the decode cache under a stream of decodes ---------- *)

\* The bytes of a region from an address on, as far as the decoder and the
\* lookup read them: the longest instruction has two bytes, and of the second
\* byte it matters only whether two windows differ in it.
Windows == {<<b>> : b \in Bytes} \cup {<<b, c>> : b \in Bytes, c \in {0, 1}}

\* getBBAt, lines 597-612, at one address of some region whose bytes from the
\* address on are w: the cache lookup, on a miss the decoder and
\* addTempInstruction, and the two counters.
DecodeCall ==
  /\ pc = "cache"
  /\ Uniqued + Translated < MaxDecodes
  /\ \E w \in Windows :
       LET Region == [Base |-> RegionBase, Extent |-> Len(w), Bytes |-> w]
           c == findCachedInstruction(CachedInsts, LongestCachedRawBytes, Region,
                                      RegionBase)
           d == getInstruction(Region, RegionBase)
           outcomes == IF ~c.hit /\ d.ok
                         THEN addTempInstruction(CachedInsts, TempInstKeys,
                                TempInstValues, LongestCachedRawBytes, d.Inst,
                                getByteRange(Region, RegionBase, d.Size))
                         ELSE {[CachedInsts |-> CachedInsts, TempInstKeys |-> TempInstKeys,
                                TempInstValues |-> TempInstValues,
                                Longest |-> LongestCachedRawBytes]}
       IN \E o \in outcomes :
            /\ CachedInsts' = o.CachedInsts
            /\ TempInstKeys' = o.TempInstKeys
            /\ TempInstValues' = o.TempInstValues
            /\ LongestCachedRawBytes' = o.Longest
            /\ Uniqued' = IF c.hit THEN Uniqued + 1 ELSE Uniqued
            /\ Translated' = IF ~c.hit /\ d.ok THEN Translated + 1 ELSE Translated
            /\ lookup' = [valid |-> FALSE, Window |-> w]
  /\ UNCHANGED <<inputVars, qryVars, drvVars, tgtVars, modVars, bbVars, splitEvt, unsplit, pc, err>>

\* A disassembler after construction: the cache is empty.
InitCache ==
  /\ mem = [i \in 1..MemSize |-> 0]
  /\ ext = {}
  /\ symbols = <<>>
  /\ pc = "cache"
  /\ err = ""
  /\ run = 0
  /\ mode = "sweep"
  /\ symIdx = 1
  /\ SectionRegions = <<>>
  /\ Atoms = EmptyMap /\ Functions = <<>> /\ Succs = {} /\ Preds = {}
  /\ FirstModule = NoModule
  /\ CallTargets = <<>> /\ TailCallTargets = <<>> /\ NewCallTargets = <<>>
  /\ CachedInsts = <<>> /\ TempInstKeys = <<>> /\ TempInstValues = <<>>
  /\ LongestCachedRawBytes = 0
  /\ Uniqued = 0 /\ Translated = 0
  /\ MCFN = None /\ Worklist = <<>> /\ wi = 1 /\ BBInfos = EmptyMap
  /\ Addr = None /\ EndAddr = None /\ TA = None
  /\ lookup = NoLookup
  /\ splitEvt = NoSplit
  /\ unsplit = EmptyMap
  /\ MOOF = NoMachO /\ VMAddrSlide = 0 /\ HeaderLoadAddress = 0
  /\ ret = NoCall

NextCache == DecodeCall

SpecCache == InitCache /\ [][NextCache]_vars

\* The greatest raw-bytes length in the table, 0 for an empty table.
MaxRawBytes(cached) ==
  IF cached = <<>> THEN 0
  ELSE CHOOSE l \in {Len(cached[i].RawBytes) : i \in 1..Len(cached)} :
         \A i \in 1..Len(cached) : Len(cached[i].RawBytes) <= l

\* C24: Cached stays sorted: after every uniqueTempInstructions, and so at
\* every findCachedInstruction call, no entry of Cached is lexicographically
\* smaller than an entry before it.
C24_CachedSorted ==
  \A i \in 1..Len(CachedInsts) : \A j \in 1..Len(CachedInsts) :
    i < j => ~LexLess(CachedInsts[j].RawBytes, CachedInsts[i].RawBytes)

\* C24 witness: a uniquing left a full table that holds a one-byte and a
\* two-byte entry.
C24_Witness ==
  /\ Len(CachedInsts) = CacheKeep
  /\ TempInstKeys = <<>>
  /\ \E i \in 1..Len(CachedInsts) : \E j \in 1..Len(CachedInsts) :
       Len(CachedInsts[i].RawBytes) < Len(CachedInsts[j].RawBytes)

\* C25: LongestCachedRawBytes is exact: it equals the greatest raw-bytes length
\* over the entries now in Cached, 0 when Cached is empty, also after a flush
\* that evicted the longest entry.
C25_LongestExact ==
  LongestCachedRawBytes = MaxRawBytes(CachedInsts)

\* A step of the decode stream that ran uniqueTempInstructions.
UniquingStep ==
  /\ Translated' = Translated + 1
  /\ TempInstKeys' = <<>>

\* The key the step passes to addTempInstruction: the bytes of the decoded
\* instruction at the head of the window the step read.
AddedKey == SubSeq(lookup'.Window, 1, DecodeBytes(lookup'.Window).Size)

\* The number of occurrences of the raw bytes b that the uniquing of the step
\* counts: the temp keys before the step, the key the step adds and one seed
\* per cached entry.
OccurrencesBefore(b) ==
  Cardinality({i \in 1..Len(TempInstKeys) : TempInstKeys[i].RawBytes = b})
    + Cardinality({i \in 1..Len(CachedInsts) : CachedInsts[i].RawBytes = b})
    + (IF AddedKey = b THEN 1 ELSE 0)

\* What the uniquing of the step retains, against what it counted.
RetentionRule ==
  LET all == {TempInstKeys[i].RawBytes : i \in 1..Len(TempInstKeys)}
               \cup {CachedInsts[i].RawBytes : i \in 1..Len(CachedInsts)}
               \cup {AddedKey}
      retained == {CachedInsts'[i].RawBytes : i \in 1..Len(CachedInsts')}
  IN /\ retained \subseteq all
     /\ Len(CachedInsts') = Cardinality(retained)
     /\ Cardinality(retained) = Min2(CacheKeep, Cardinality(all))
     /\ \A r \in retained : \A d \in all \ retained :
          OccurrencesBefore(r) >= OccurrencesBefore(d)

\* C26: frequency-biased retention: a uniquing leaves in Cached one entry for
\* each of the min(CacheKeep, number of distinct raw bytes) most frequent byte
\* sequences among the temp keys and one seed per entry cached before: no
\* discarded sequence was counted more often than a retained one, and when at
\* most CacheKeep distinct sequences exist all are retained.
C26_FrequencyBiasedRetention ==
  [][UniquingStep => RetentionRule]_vars

\* C26 witness: a uniquing has discarded a sequence that was cached before, so
\* the table is full and the greatest cached length is stale.
C26_Witness ==
  /\ Len(CachedInsts) = CacheKeep
  /\ TempInstKeys = <<>>
  /\ LongestCachedRawBytes > MaxRawBytes(CachedInsts)

\* C27: bounded cache memory: whenever addTempInstruction has returned, the two
\* temp buffers hold at most TempThreshold entries each and are equally long
\* and Cached holds at most CacheKeep entries; the call that finds the buffers
\* full runs the uniquing, right after which both temp buffers are empty.
C27_BoundedCacheMemory ==
  /\ [](/\ Len(TempInstValues) <= TempThreshold
        /\ Len(TempInstKeys) = Len(TempInstValues)
        /\ Len(CachedInsts) <= CacheKeep)
  /\ [][(Translated' = Translated + 1 /\ Len(TempInstValues) + 1 > TempThreshold)
          => (TempInstKeys' = <<>> /\ TempInstValues' = <<>>)]_vars

\* C27 witness: more instructions were added than the buffers and the table
\* hold together, the table is full and the buffers were just emptied.
C27_Witness ==
  /\ Translated > TempThreshold + CacheKeep
  /\ Len(CachedInsts) = CacheKeep
  /\ TempInstValues = <<>>
  /\ TempInstKeys = <<>>

\* The positions of the symbol table whose effective address has a region.
SymbolsWithRegion ==
  {i \in 1..Len(symbols) :
     getRegionFor(SectionRegions, getEffectiveLoadAddr(symbols[i])) # FallbackRegion}

\* C29: the driver's fixpoint loop never iterates: the body of the while loop
\* of buildCFG is never entered, so the functions of the returned module are
\* the ones createFunction made in the symbol sweep: a named function for each
\* symbol with a region that the symbolizer names as external, and one function
\* at each other symbol address with a region.
C29_FixpointNeverIterates ==
  /\ mode = "sweep"
  /\ pc = "done" =>
       LET named == {f \in 1..Len(Functions) : Functions[f].Name # None}
           unnamed == {f \in 1..Len(Functions) : Functions[f].Name = None}
           extSyms == {i \in SymbolsWithRegion :
                         findExternalFunctionAt(ext, getOriginalLoadAddr(symbols[i])) # None}
           ownAddrs == {getEffectiveLoadAddr(symbols[i]) : i \in SymbolsWithRegion \ extSyms}
       IN /\ Cardinality(named) = Cardinality(extSyms)
          /\ \A f \in named : \E i \in extSyms : Functions[f].Name = symbols[i]
          /\ \A f \in unnamed : Functions[f].Blocks # <<>>
          /\ {Functions[f].Blocks[1] : f \in unnamed} = ownAddrs
          /\ Cardinality(unnamed) = Cardinality(ownAddrs)

\* C29 witness: buildModule(true) returned while a harvested call target has no
\* function.
C29_Witness ==
  /\ pc = "done"
  /\ Functions # <<>>
  /\ \E t \in Range(CallTargets) :
       /\ ~HasFunctionAt(t)
       /\ getRegionFor(SectionRegions, t) # FallbackRegion

\* getBBAt's first loop is running: a worklist address is being looked up or
\* disassembled.
InFirstLoop == pc \in {"phase1", "dis"}

\* C30: worklist termination: getBBAt's loops end (the call returns, or an
\* assertion other than the one on the block's atom stops it); the worklist
\* never holds an address twice; the first loop has handled exactly the
\* addresses before the current index, one BBInfo each, in worklist order; and
\* the assertion that a discovered block has no atom yet never fails.
C30_WorklistTermination ==
  /\ [](/\ \A i \in 1..Len(Worklist) : \A j \in 1..Len(Worklist) :
             i # j => Worklist[i] # Worklist[j]
        /\ InFirstLoop =>
             /\ wi <= Len(Worklist) + 1
             /\ DOMAIN BBInfos = {Worklist[i] : i \in 1..(wi - 1)}
        /\ err # "Discovered basic block already has an associated atom!")
  /\ [][InFirstLoop => (wi' \in {wi, wi + 1}
                          /\ SubSeq(Worklist', 1, Len(Worklist)) = Worklist)]_vars
  /\ (InFirstLoop ~> pc \in {"driver", "aborted"})

\* C30 witness: getBBAt returned after its first loop handled at least two
\* worklist addresses, one of them inserted twice (a block that two successor
\* entries name).
C30_Witness ==
  /\ pc = "driver"
  /\ Len(Worklist) >= 2
  /\ wi = Len(Worklist) + 1
  /\ \E s \in Range(Worklist) :
       Cardinality({<<a, i>> \in UNION {{a} \X DOMAIN BBInfos[a].SuccAddrs :
                                          a \in DOMAIN BBInfos} :
                      BBInfos[a].SuccAddrs[i] = s}) >= 2

(* ----------- createFunction on a module from buildModule(false) -------- *)

\* createFunction(Module, a, CallTargets, TailCallTargets) called by the
\* client on the module buildModule(false) returned, or on that module again
\* after an earlier createFunction returned.
createFunctionOnModule ==
  /\ pc \in {"swept", "driver"}
  /\ Len(symbols) < MaxSyms
  /\ \E a \in SymAddrs :
       /\ symbols' = Append(symbols, a)
       /\ createFunction(a)
  /\ UNCHANGED <<inputVars, qryVars, run, mode, symIdx, SectionRegions, FirstModule,
                 tgtVars, Atoms, Succs, Preds, cacheVars, cntVars, lookup, err>>

\* buildModule(false), then createFunction calls on its module.  The sweep
\* leaves no address of the section outside an atom, so getBBAt finds an atom
\* for every worklist address and never starts a disassembly of its own.
NextData ==
  \/ buildModuleNoCFG
  \/ createFunctionOnModule
  \/ Phase1
  \/ Phase23

SpecData == InitSweep /\ [][NextData]_vars

\* C28: data atoms are skipped: getBBAt never stops on the cast of an atom to
\* a text atom, neither for the atom that contains the worklist address nor
\* for the first atom after it.
C28_DataAtomsSkipped ==
  err \notin {"cast<MCTextAtom>", "cast_or_null<MCTextAtom>"}

\* The edge from the block on atom b to the block on atom s is one the
\* trailing instruction of b gives: its fallthrough or its branch target.
EdgeJustified(b, s) ==
  /\ b \in DOMAIN Atoms
  /\ Atoms[b].IsText
  /\ Atoms[b].Insts # <<>>
  /\ \/ /\ isConditionalBranch(BackInst(b).Inst) \/ ~isTerminator(BackInst(b).Inst)
        /\ s = Atoms[b].End + 1
     \/ /\ isBranch(BackInst(b).Inst)
        /\ s = evaluateBranch(BackInst(b).Inst, BackInst(b).Address, BackInst(b).Size)

\* C23: stale blocks after a split: when getBBAt has returned, every successor
\* edge of every block of every function, the blocks of earlier functions whose
\* atom the call truncated included, joins two blocks of one function and is
\* given by the trailing instruction of the source block's atom as it is now;
\* the truncated block still begins its atom, which ends before the split.
C23_StaleBlocksAfterSplit ==
  pc \in {"driver", "done"} =>
    /\ \A e \in Succs :
         /\ e[1][1] = e[2][1]
         /\ e[1] \in BlocksOf(Functions)
         /\ e[2] \in BlocksOf(Functions)
         /\ EdgeJustified(e[1][2], e[2][2])
    /\ splitEvt.a0 # None =>
         /\ <<splitEvt.fn0, splitEvt.a0>> \in BlocksOf(Functions)
         /\ <<splitEvt.fn0, splitEvt.a1>> \in BlocksOf(Functions)
         /\ Atoms[splitEvt.a0].End < splitEvt.a1

\* C23 witness: a call split the atom of a block of an earlier function that
\* had a successor edge, and returned; the upper half is a block of the earlier
\* function with an outgoing edge.
C23_Witness ==
  /\ pc = "driver"
  /\ splitEvt.a0 # None
  /\ \E e \in Succs : e[1] = <<splitEvt.fn0, splitEvt.a1>>
  /\ <<<<splitEvt.fn0, splitEvt.a0>>, <<splitEvt.fn0, splitEvt.a1>>>> \in Succs

(* ------------- splits within one getBBAt call (longer section) -------- *)

\* An object whose text section begins with a conditional branch and a nop at
\* its fallthrough address, then SplitTail bytes; the branch goes to the nop or
\* to one of the two bytes after it.  These are the sections in which a branch
\* target falls inside an atom that the same getBBAt call built from the
\* fallthrough.
InitSplit ==
  /\ mem \in {<<3, t, 1>> \o tail : t \in 2..4, tail \in [1..SplitTail -> Bytes]}
  /\ ext = {}
  /\ symbols = <<>>
  /\ pc = "idle"
  /\ err = ""
  /\ run = 0
  /\ mode = "sweep"
  /\ symIdx = 1
  /\ SectionRegions = <<>>
  /\ Atoms = EmptyMap /\ Functions = <<>> /\ Succs = {} /\ Preds = {}
  /\ FirstModule = NoModule
  /\ CallTargets = <<>> /\ TailCallTargets = <<>> /\ NewCallTargets = <<>>
  /\ CachedInsts = <<>> /\ TempInstKeys = <<>> /\ TempInstValues = <<>>
  /\ LongestCachedRawBytes = 0
  /\ Uniqued = 0 /\ Translated = 0
  /\ MCFN = None /\ Worklist = <<>> /\ wi = 1 /\ BBInfos = EmptyMap
  /\ Addr = None /\ EndAddr = None /\ TA = None
  /\ lookup = NoLookup
  /\ splitEvt = NoSplit
  /\ unsplit = EmptyMap
  /\ MOOF = NoMachO /\ VMAddrSlide = 0 /\ HeaderLoadAddress = 0
  /\ ret = NoCall

SpecSplit == InitSplit /\ [][Next]_vars

\* The atom at b was built by the getBBAt call that is running or has just
\* returned: no block of another function is on it.
BuiltInCall(b) ==
  \A f \in 1..Len(Functions) : f # MCFN => b \notin Range(Functions[f].Blocks)

\* The atom at b ends where a linear disassembly stopped on a decode failure:
\* its trailing instruction is no terminator, no other atom begins where the
\* disassembly had to stop, and the address after it is in the region, in no
\* atom, and not decodable.
EndsAtFailure(b) ==
  /\ b \in DOMAIN Atoms
  /\ Atoms[b].IsText
  /\ Atoms[b].Insts # <<>>
  /\ ~isTerminator(BackInst(b).Inst)
  /\ Atoms[b].End + 1 < EndRegionOf(b)
  /\ \A c \in DOMAIN Atoms : ~(b < c /\ c <= Atoms[b].End + 1)
  /\ findAtomContaining(Atoms, Atoms[b].End + 1) = None
  /\ ~DecodeAt(Atoms[b].End + 1).ok

\* C21: decode-failure blocks have no successors: during and after the getBBAt
\* call that built it, a block that ends at a decode failure keeps the
\* instructions decoded before the failure and has no successor address, and
\* once the call has returned no successor edge; also for the upper half of
\* such a block that a later worklist address of the call split off.
C21_FailureBlocksNoSuccessors ==
  pc \in {"phase1", "dis", "driver", "done"} =>
    \A a \in DOMAIN BBInfos :
      (BuiltInCall(BBInfos[a].Atom) /\ EndsAtFailure(BBInfos[a].Atom)) =>
        /\ IsDecodedRun(BBInfos[a].Atom)
        /\ BBInfos[a].SuccAddrs = <<>>
        /\ pc \in {"driver", "done"} => SuccAddrsOf(<<MCFN, BBInfos[a].Atom>>) = {}

\* The block that the split at addr left below addr: the block that was split,
\* or the highest piece later split off it below addr.
LowerOf(addr) ==
  LET pieces == {unsplit[addr].lower}
                  \cup {x \in DOMAIN unsplit : unsplit[addr].lower < x /\ x < addr}
  IN CHOOSE x \in pieces : \A y \in pieces : y <= x

\* The split addresses whose lower block is the block at addr: the block at
\* addr was cut again there.
CutAgain(addr) == {x \in DOMAIN unsplit : LowerOf(x) = addr}

\* C22: successor transfer on an in-call split: when the getBBAt call has
\* returned, for every address addr at which it split an atom whose begin
\* address it had already processed, the truncated lower block has exactly one
\* successor, the block at addr; the block at addr has exactly the successors
\* the unsplit block had, or, when it was cut again at a higher address, that
\* address alone while the piece above it has the unsplit block's successors.
C22_SuccessorTransfer ==
  pc = "driver" =>
    \A addr \in DOMAIN unsplit :
      /\ LowerOf(addr) \in DOMAIN BBInfos
      /\ <<MCFN, LowerOf(addr)>> \in BlocksOf(Functions)
      /\ <<MCFN, addr>> \in BlocksOf(Functions)
      /\ SuccAddrsOf(<<MCFN, LowerOf(addr)>>) = {addr}
      /\ IF CutAgain(addr) = {}
           THEN SuccAddrsOf(<<MCFN, addr>>) = unsplit[addr].succ
           ELSE \A x \in CutAgain(addr) :
                  /\ SuccAddrsOf(<<MCFN, addr>>) = {x}
                  /\ unsplit[addr].succ = {x} \/ unsplit[addr].succ = unsplit[x].succ

\* C22 witness: a returned call that split one atom twice, the higher address
\* first, where the unsplit block had a successor.
C22_Witness ==
  /\ pc = "driver"
  /\ \E addr \in DOMAIN unsplit : \E x \in CutAgain(addr) :
       /\ unsplit[addr].succ = {x}
       /\ unsplit[x].succ # {}
       /\ unsplit[x].succ # {x}

(* --------------------------- call targets ----------------------------- *)

\* The instructions a step added to atoms: those of new atoms and those
\* appended to atoms that were there.
AppendedInsts ==
  UNION {{Atoms'[b].Insts[k] :
            k \in {j \in 1..Len(Atoms'[b].Insts) :
                     b \notin DOMAIN Atoms \/ j > Len(Atoms[b].Insts)}}
         : b \in DOMAIN Atoms'}

\* A step of the linear disassembly.
DisassemblyStep == pc = "dis" /\ pc' \in {"dis", "phase1"}

\* A first-loop iteration that found an atom at its worklist address and
\* adopted or split it.
AdoptOrSplitStep == pc = "phase1" /\ pc' = "phase1" /\ wi' = wi + 1

\* The call targets of the instructions a disassembly step appended are in the
\* accumulator after the step, and the first loop only appends to it.
HarvestRule ==
  /\ DisassemblyStep =>
       \A i \in AppendedInsts :
         (isCall(i.Inst) /\ evaluateBranch(i.Inst, i.Address, i.Size) # None)
           => evaluateBranch(i.Inst, i.Address, i.Size) \in Range(CurCallTargets')
  /\ InFirstLoop =>
       /\ Len(CurCallTargets') >= Len(CurCallTargets)
       /\ SubSeq(CurCallTargets', 1, Len(CurCallTargets)) = CurCallTargets

\* The target of the trailing branch of the atom at b, when the symbolizer
\* names it as an external function; None otherwise.
ExternalTailTarget(atoms, b) ==
  LET back == atoms[b].Insts[Len(atoms[b].Insts)]
      T == IF isBranch(back.Inst)
             THEN evaluateBranch(back.Inst, back.Address, back.Size) ELSE None
  IN IF T # None /\ findExternalFunctionAt(ext, getOriginalLoadAddr(T)) # None
       THEN T ELSE None

\* C31, as stated: call-target harvesting: the target of every call the linear
\* disassembly appends, from a cache hit or from the decoder, is in callTargets
\* from then on until getBBAt returns; an iteration that adopts or splits an
\* atom adds nothing to callTargets.
C31_CallTargetHarvesting ==
  [][/\ HarvestRule
     /\ AdoptOrSplitStep => CurCallTargets' = CurCallTargets]_vars

\* C31, amended: as above, but an iteration that adopts or splits an atom adds
\* no call of that atom to callTargets: it leaves callTargets as it is, or
\* appends the one target of the atom's trailing branch that the symbolizer
\* names as an external function.
C31_CallTargetHarvestingButTailCalls ==
  [][/\ HarvestRule
     /\ AdoptOrSplitStep =>
          LET T == ExternalTailTarget(Atoms', BBInfos'[Worklist[wi]].Atom)
          IN IF T = None THEN CurCallTargets' = CurCallTargets
             ELSE CurCallTargets' = Append(CurCallTargets, T)]_vars

\* C31 witness: getBBAt returned after its disassembly took a call from the
\* cache, and the call's target is in callTargets.
C31_Witness ==
  /\ pc = "driver"
  /\ lookup.valid
  /\ lookup.hit
  /\ isCall(lookup.Inst)
  /\ evaluateBranch(lookup.Inst, lookup.Addr, lookup.InstSize) \in Range(CurCallTargets)

(* ------------------- blocks and edges of one function ------------------ *)

\* getBBAt's second and third loop ran and the call returns.
ReturnStep == pc = "phase1" /\ pc' = "driver"

\* C32: edges stay inside one function and the entry is returned: every
\* successor and predecessor edge getBBAt wires joins two blocks of the
\* function it was called for; when it returns every worklist address has a
\* block in that function whose atom begins at the address, and so has
\* beginAddr, the first worklist address, whose block is the one returned.
C32_EdgesInsideFunction ==
  /\ [][ReturnStep =>
          \A e \in (Succs' \ Succs) \cup (Preds' \ Preds) :
            /\ e[1][1] = MCFN /\ e[2][1] = MCFN
            /\ e[1] \in BlocksOf(Functions')
            /\ e[2] \in BlocksOf(Functions')]_vars
  /\ [](pc = "driver" /\ Worklist # <<>> =>
          /\ \A a \in Range(Worklist) :
               /\ a \in DOMAIN BBInfos
               /\ BBInfos[a].Atom = a
               /\ a \in DOMAIN Atoms
               /\ Atoms[a].Begin = a
               /\ <<MCFN, a>> \in BlocksOf(Functions)
          /\ Functions[MCFN].Blocks[1] = Worklist[1])

\* C32 witness: the call for a second function returned with an edge between
\* two of its blocks, one of them on an atom the first function has a block
\* on too.
C32_Witness ==
  /\ pc = "driver"
  /\ MCFN = 2
  /\ \E e \in Succs :
       /\ e[1][1] = 2 /\ e[2][1] = 2
       /\ e[1][2] # e[2][2]
       /\ <<1, e[2][2]>> \in BlocksOf(Functions)

\* getBBAt's first loop has handled every worklist address.
EndOfPhase1 == pc = "phase1" /\ wi > Len(Worklist)

\* C33: successor addresses are always worklist members: while the first loop
\* of getBBAt runs and at its end, every address in the successor list of every
\* BBInfo, the lists a split moved or replaced included, is on the worklist; at
\* the end of the loop the BBInfos are those of the worklist addresses, each
\* with an atom, so the third loop finds a basic block for every successor
\* address and adds no BBInfo.
C33_SuccessorsAreWorklistMembers ==
  /\ InFirstLoop =>
       \A a \in DOMAIN BBInfos : Range(BBInfos[a].SuccAddrs) \subseteq Range(Worklist)
  /\ EndOfPhase1 =>
       /\ DOMAIN BBInfos = Range(Worklist)
       /\ \A a \in DOMAIN BBInfos : BBInfos[a].Atom # None
  /\ err # "successor without a basic block"

\* C33 witness: the first loop ended after a split moved a successor list to
\* the block at the split address and replaced the list of the block below.
C33_Witness ==
  /\ EndOfPhase1
  /\ \E addr \in DOMAIN unsplit :
       /\ unsplit[addr].succ # {}
       /\ BBInfos[addr].SuccAddrs # <<>>
       /\ BBInfos[unsplit[addr].lower].SuccAddrs = <<addr>>

====
